---- MODULE Spec2Model ----
(***************************************************************************)
(* Model of src/types.rs of pbrt4: the constructors that turn a type tag   *)
(* and a parameter list into a typed scene entity.                         *)
(*                                                                         *)
(* A scene is a list of directives.  Each directive names an entity        *)
(* family, a type tag and a parameter list; processing a directive calls   *)
(* the constructor of its family and records the outcome.  Directives may  *)
(* be processed in any order.  A panic (unimplemented!, debug_assert_eq!)  *)
(* ends the run.                                                           *)
(***************************************************************************)
EXTENDS Integers, Sequences, FiniteSets, TLC

VARIABLES
    scene,             \* the directives of the scene being loaded, by slot
    pending,           \* slots whose directive has not been processed yet
    log,               \* processed slots with their outcome, in call order
    opts,              \* the Options value of the scene
    debug_assertions   \* build profile: TRUE when debug assertions are compiled in

vars == <<scene, pending, log, opts, debug_assertions>>

(***************************************************************************)
(* Bounds of the model.                                                    *)
(***************************************************************************)
\* Largest number of parameters in one parameter list.
MaxParams == 2
\* Largest length of an array-valued parameter.
MaxArrayLen == 5
\* Number of directives in a scene with several directives.
MaxScene == 2

(***************************************************************************)
(* Values.  An f32 is written as a decimal <<mantissa, exponent>>, meaning *)
(* mantissa * 10^exponent; an i32 is an integer.  Option<T> is a sequence  *)
(* of length 0 (None) or 1 (Some).                                         *)
(***************************************************************************)
f32(m, e) == <<m, e>>

\* f32::MAX = 3.4028235e38
F32_MAX == f32(34028235, 31)

\* Unary minus on f32.
Neg(x) == <<0 - x[1], x[2]>>

None == <<>>
Some(v) == <<v>>
is_some(o) == Len(o) = 1
unwrap_or(o, default) == IF o = None THEN default ELSE o[1]

\* Result<T>: Ok(value), Err(error); a panic is the third outcome of a call.
Ok(v) == [kind |-> "Ok", value |-> <<v>>, error |-> ""]
Err(e) == [kind |-> "Err", value |-> <<>>, error |-> e]
Panic(msg) == [kind |-> "Panic", value |-> <<>>, error |-> msg]

\* unimplemented!()
unimplemented == Panic("not implemented")

\* <[f32; n]>::try_from(&[f32]): the same elements when the length is n.
try_into(slice, n) == IF Len(slice) = n THEN Ok(slice) ELSE Err("TryFromSliceError")

(***************************************************************************)
(* ParamList: a map from parameter name to its value.  The accessors take  *)
(* the default (scalars) or return an Option (strings, booleans, arrays).  *)
(***************************************************************************)
EmptyParams == <<>>

float(params, name, default) ==
    IF name \in DOMAIN params THEN params[name] ELSE default

integer(params, name, default) ==
    IF name \in DOMAIN params THEN params[name] ELSE default

boolean(params, name) ==
    IF name \in DOMAIN params THEN Some(params[name]) ELSE None

string(params, name) ==
    IF name \in DOMAIN params THEN Some(params[name]) ELSE None

floats(params, name) ==
    IF name \in DOMAIN params THEN Some(params[name]) ELSE None

integers(params, name) ==
    IF name \in DOMAIN params THEN Some(params[name]) ELSE None

(***************************************************************************)
(* CoordinateSystem                                                        *)
(***************************************************************************)
CoordinateSystem_from_str_Lenient(s) ==
    CASE s \in {"cameraworld", "CameraWorld"} -> Ok("CameraWorld")
      [] s \in {"camera", "Camera", " camera"} -> Ok("Camera")
      [] s \in {"world", "World", "world "} -> Ok("World")
      [] OTHER -> Err("UnknownCoordinateSystem")

CoordinateSystem_from_str(s) ==
    CASE s = "cameraworld" -> Ok("CameraWorld")
      [] s = "camera" -> Ok("Camera")
      [] s = "world" -> Ok("World")
      [] OTHER -> Err("UnknownCoordinateSystem")

(***************************************************************************)
(* Options                                                                 *)
(***************************************************************************)
Options_default ==
    [ disable_pixel_jitter |-> FALSE,
      disable_texture_filtering |-> FALSE,
      disable_wavelength_jitter |-> FALSE,
      displacement_edge_scale |-> f32(1, 0),
      mse_reference_image |-> None,
      mse_reference_out |-> None,
      render_coord_sys |-> "CameraWorld" ]

\* A plausible implementation of the placeholder: the option is applied.
Options_apply_Applied(self, option) ==
    [ self |->
        [ self EXCEPT
            !.disable_pixel_jitter =
                unwrap_or(boolean(option, "disablepixeljitter"), @),
            !.disable_texture_filtering =
                unwrap_or(boolean(option, "disabletexturefiltering"), @),
            !.disable_wavelength_jitter =
                unwrap_or(boolean(option, "disablewavelengthjitter"), @),
            !.displacement_edge_scale = float(option, "displacementedgescale", @),
            !.mse_reference_image =
                IF "msereferenceimage" \in DOMAIN option
                THEN string(option, "msereferenceimage") ELSE @,
            !.mse_reference_out =
                IF "msereferenceout" \in DOMAIN option
                THEN string(option, "msereferenceout") ELSE @ ],
      ret |->
        IF "rendercoordsys" \in DOMAIN option
           /\ CoordinateSystem_from_str(option["rendercoordsys"]).kind = "Err"
        THEN Err("UnknownCoordinateSystem") ELSE Ok(<<>>) ]

\* Options::apply(&mut self, _option): the value of self afterwards, and the
\* value returned.
Options_apply(self, option) ==
    [ self |-> self, ret |-> Ok(<<>>) ]

(***************************************************************************)
(* Film                                                                    *)
(***************************************************************************)
Film_default ==
    [ xresolution |-> 1280,
      yresolution |-> 720,
      crop_window |-> <<f32(0, 0), f32(1, 0), f32(0, 0), f32(1, 0)>>,
      diagonal |-> f32(35, 0),
      filename |-> "pbrt.exr",
      save_fp16 |-> TRUE,
      iso |-> f32(100, 0),
      white_balance |-> f32(0, 0),
      sensor |-> "cie1931",
      max_component_value |-> F32_MAX,
      ty |-> [variant |-> "Rgb"] ]

\* A spectral film whose bucket count defaults to 32.
Film_type_Buckets32(ty, params) ==
    CASE ty = "rgb" -> Ok([variant |-> "Rgb"])
      [] ty = "gbuffer" ->
            Ok([ variant |-> "GBuffer",
                 coordinate_system |->
                    unwrap_or(string(params, "coordinatesystem"), "camera") ])
      [] ty = "spectral" ->
            Ok([ variant |-> "Spectral",
                 nbuckets |-> integer(params, "nbuckets", 32),
                 lambda_min |-> float(params, "lambdamin", f32(360, 0)),
                 lambda_max |-> float(params, "lambdamax", f32(830, 0)) ])
      [] OTHER -> unimplemented

\* The match on the type tag at the head of Film::new.
Film_type(ty, params) ==
    CASE ty = "rgb" -> Ok([variant |-> "Rgb"])
      [] ty = "gbuffer" ->
            Ok([ variant |-> "GBuffer",
                 coordinate_system |->
                    unwrap_or(string(params, "coordinatesystem"), "camera") ])
      [] ty = "spectral" ->
            Ok([ variant |-> "Spectral",
                 nbuckets |-> integer(params, "nbuckets", 16),
                 lambda_min |-> float(params, "lambdamin", f32(360, 0)),
                 lambda_max |-> float(params, "lambdamax", f32(830, 0)) ])
      [] OTHER -> unimplemented

\* A crop window that is cut or padded to four floats instead of rejected.
Film_crop_window_Padded(params) ==
    LET given == unwrap_or(floats(params, "cropwindow"),
                           <<f32(0, 0), f32(1, 0), f32(0, 0), f32(1, 0)>>)
    IN  Ok([i \in 1..4 |-> IF i <= Len(given) THEN given[i] ELSE f32(0, 0)])

\* The crop_window field of Film::new.
Film_crop_window(params) ==
    LET given == unwrap_or(floats(params, "cropwindow"),
                           <<f32(0, 0), f32(1, 0), f32(0, 0), f32(1, 0)>>)
        array == try_into(given, 4)
    IN  IF array.kind = "Ok" THEN array ELSE Err("ParseSlice")

Film_new(ty, params) ==
    LET type == Film_type(ty, params)
        crop == Film_crop_window(params)
    IN  IF type.kind # "Ok" THEN type
        ELSE IF crop.kind # "Ok" THEN crop
        ELSE Ok([ xresolution |-> integer(params, "xresolution", 1280),
                  yresolution |-> integer(params, "yresolution", 720),
                  crop_window |-> crop.value[1],
                  diagonal |-> float(params, "diagonal", f32(35, 0)),
                  filename |-> unwrap_or(string(params, "filename"), "pbrt.exr"),
                  save_fp16 |-> unwrap_or(boolean(params, "savefp16"), TRUE),
                  iso |-> float(params, "iso", f32(100, 0)),
                  white_balance |-> float(params, "whitebalance", f32(0, 0)),
                  sensor |-> unwrap_or(string(params, "sensor"), "cie1931"),
                  max_component_value |->
                      float(params, "maxcomponentvalue", F32_MAX),
                  ty |-> type.value[1] ])

(***************************************************************************)
(* Camera                                                                  *)
(***************************************************************************)
\* A camera whose shutter_close is read under the name of shutter_open.
Camera_new_ShutterMixed(ty, params) ==
    LET shutter_open == float(params, "shutteropen", f32(0, 0))
        shutter_close == float(params, "shutteropen", f32(1, 0))
    IN  CASE ty = "orthographic" ->
                Ok([ variant |-> "Orthographic",
                     shutter_open |-> shutter_open,
                     shutter_close |-> shutter_close ])
          [] ty = "perspective" ->
                Ok([ variant |-> "Perspective",
                     shutter_open |-> shutter_open,
                     shutter_close |-> shutter_close,
                     fov |-> float(params, "fov", f32(90, 0)) ])
          [] ty = "realistic" ->
                Ok([ variant |-> "Realistic",
                     shutter_open |-> shutter_open,
                     shutter_close |-> shutter_close,
                     lensfile |-> string(params, "lensfile"),
                     aperture_diameter |->
                         float(params, "aperturediameter", f32(1, 0)),
                     focus_distance |-> float(params, "focusdistance", f32(10, 0)),
                     aperture |-> string(params, "aperture") ])
          [] ty = "spherical" ->
                Ok([ variant |-> "Spherical",
                     shutter_open |-> shutter_open,
                     shutter_close |-> shutter_close,
                     mapping |-> unwrap_or(string(params, "mapping"), "equalarea") ])
          [] OTHER -> Err("InvalidCameraType")

Camera_new(ty, params) ==
    LET shutter_open == float(params, "shutteropen", f32(0, 0))
        shutter_close == float(params, "shutterclose", f32(1, 0))
    IN  CASE ty = "orthographic" ->
                Ok([ variant |-> "Orthographic",
                     shutter_open |-> shutter_open,
                     shutter_close |-> shutter_close ])
          [] ty = "perspective" ->
                Ok([ variant |-> "Perspective",
                     shutter_open |-> shutter_open,
                     shutter_close |-> shutter_close,
                     fov |-> float(params, "fov", f32(90, 0)) ])
          [] ty = "realistic" ->
                Ok([ variant |-> "Realistic",
                     shutter_open |-> shutter_open,
                     shutter_close |-> shutter_close,
                     lensfile |-> string(params, "lensfile"),
                     aperture_diameter |->
                         float(params, "aperturediameter", f32(1, 0)),
                     focus_distance |-> float(params, "focusdistance", f32(10, 0)),
                     aperture |-> string(params, "aperture") ])
          [] ty = "spherical" ->
                Ok([ variant |-> "Spherical",
                     shutter_open |-> shutter_open,
                     shutter_close |-> shutter_close,
                     mapping |-> unwrap_or(string(params, "mapping"), "equalarea") ])
          [] OTHER -> Err("InvalidCameraType")

(***************************************************************************)
(* Integrator                                                              *)
(***************************************************************************)
\* An integrator whose "path" variant is wired as well.
Integrator_new_PathWired(ty, params) ==
    CASE ty = "volpath" ->
            Ok([ variant |-> "VolPath",
                 max_depth |-> integer(params, "maxdepth", 5) ])
      [] ty = "path" -> Ok([variant |-> "Path"])
      [] OTHER -> unimplemented

\* An integrator whose default depth comes from a counter shared by the calls.
Integrator_new_Counter(ty, params) ==
    CASE ty = "volpath" ->
            Ok([ variant |-> "VolPath",
                 max_depth |-> integer(params, "maxdepth", 5 + Len(log)) ])
      [] OTHER -> unimplemented

Integrator_new(ty, params) ==
    CASE ty = "volpath" ->
            Ok([ variant |-> "VolPath",
                 max_depth |-> integer(params, "maxdepth", 5) ])
      [] OTHER -> unimplemented

(***************************************************************************)
(* Accelerator                                                             *)
(***************************************************************************)
\* A split method that falls back to Sah on a string it does not know.
BvhSplitMethod_parse_Fallback(s) ==
    CASE s = "middle" -> Ok("Middle")
      [] s = "equal" -> Ok("Equal")
      [] s = "hlbvh" -> Ok("Hlbvh")
      [] OTHER -> Ok("Sah")

\* The inner match of the bvh arm on the "splitmethod" string.
BvhSplitMethod_parse(s) ==
    CASE s = "sah" -> Ok("Sah")
      [] s = "middle" -> Ok("Middle")
      [] s = "equal" -> Ok("Equal")
      [] s = "hlbvh" -> Ok("Hlbvh")
      [] OTHER -> Err("InvalidString")

Accelerator_new(ty, params) ==
    CASE ty = "bvh" ->
            LET split_method ==
                    BvhSplitMethod_parse(
                        unwrap_or(string(params, "splitmethod"), "sah"))
            IN  IF split_method.kind # "Ok" THEN split_method
                ELSE Ok([ variant |-> "Bvh",
                          max_node_prims |-> integer(params, "maxnodeprims", 4),
                          split_method |-> split_method.value[1] ])
      [] ty = "kdtree" ->
            Ok([ variant |-> "KdTree",
                 intersect_cost |-> integer(params, "intersectcost", 5),
                 traversal_cost |-> integer(params, "traversalcost", 1),
                 empty_bonus |-> float(params, "emptybonus", f32(5, -1)),
                 max_prims |-> integer(params, "maxprims", 1),
                 max_depth |-> integer(params, "maxdepth", -1) ])
      [] OTHER -> Err("InvalidString")

(***************************************************************************)
(* Sampler                                                                 *)
(***************************************************************************)
Sampler_new(ty, params) ==
    CASE ty = "halton" -> Ok([variant |-> "Halton"])
      [] ty = "independent" -> Ok([variant |-> "Independent"])
      [] ty = "paddedsobol" -> Ok([variant |-> "PaddedSobol"])
      [] ty = "sobol" -> Ok([variant |-> "Sobol"])
      [] ty = "stratified" -> Ok([variant |-> "Stratified"])
      [] ty = "zsobol" -> Ok([variant |-> "ZSobol"])
      [] OTHER -> Err("InvalidObjectType")

(***************************************************************************)
(* Light                                                                   *)
(***************************************************************************)
\* A spectrum of which the first three floats are taken, whatever its length.
Light_l_FirstThree(params) ==
    LET given == floats(params, "L")
    IN  IF is_some(given)
        THEN Ok(Some([i \in 1..3 |->
                        IF i <= Len(given[1]) THEN given[1][i] ELSE f32(0, 0)]))
        ELSE Ok(None)

\* The l field of the infinite arm of Light::new.
Light_l(params) ==
    LET given == floats(params, "L")
    IN  IF is_some(given)
        THEN LET array == try_into(given[1], 3)
             IN  IF array.kind = "Ok" THEN Ok(Some(array.value[1]))
                 ELSE Err("ParseSlice")
        ELSE Ok(None)

Light_new(ty, params) ==
    CASE ty = "distant" -> Ok([variant |-> "Distant"])
      [] ty = "goniometric" -> Ok([variant |-> "GonioPhotometric"])
      [] ty = "infinite" ->
            LET l == Light_l(params)
            IN  IF l.kind # "Ok" THEN l
                ELSE Ok([ variant |-> "Infinite",
                          filename |-> string(params, "filename"),
                          l |-> l.value[1] ])
      [] ty = "point" -> Ok([variant |-> "Point"])
      [] ty = "projection" -> Ok([variant |-> "Projection"])
      [] ty = "spot" -> Ok([variant |-> "Spot"])
      [] OTHER -> unimplemented

(***************************************************************************)
(* Texture, Material, Medium                                               *)
(***************************************************************************)
Texture_new(name, ty, class, params) ==
    CASE ty = "spectrum" ->
            Ok([name |-> name, ty |-> "Spectrum", class |-> class])
      [] ty = "float" ->
            Ok([name |-> name, ty |-> "Float", class |-> class])
      [] OTHER -> Err("InvalidObjectType")

\* A material that looks its "reflectance" texture up and fails without it.
Material_new_Lookup(name, params, texture_map) ==
    IF /\ "reflectance" \in DOMAIN params
       /\ params["reflectance"] \notin DOMAIN texture_map
    THEN Err("InvalidString")
    ELSE Ok([ty |-> name])

Material_new(name, params, texture_map) ==
    Ok([ty |-> name])

Medium_new(params) ==
    Ok([variant |-> "Medium"])

(***************************************************************************)
(* Shape                                                                   *)
(***************************************************************************)
\* A sphere whose upper clipping plane defaults to the negated lower one.
Sphere_zrange_FromZmin(params, radius) ==
    LET zmin == float(params, "zmin", Neg(radius))
    IN  [ zmin |-> zmin, zmax |-> float(params, "zmax", Neg(zmin)) ]

\* The two clipping planes of the sphere arm, read after the radius.
Sphere_zrange(params, radius) ==
    [ zmin |-> float(params, "zmin", Neg(radius)),
      zmax |-> float(params, "zmax", radius) ]

\* The check as assert_eq!, made in every build.
debug_assert_indices_Always(indices) ==
    Len(indices) % 3 = 0

\* debug_assert_eq!(indices.len() % 3, 0): checked in builds with debug
\* assertions only.
debug_assert_indices(indices) ==
    ~debug_assertions \/ Len(indices) % 3 = 0

Shape_new(ty, params) ==
    LET alpha == float(params, "alpha", f32(1, 0))
    IN  CASE ty = "cylinder" ->
                Ok([ variant |-> "Cylinder",
                     alpha |-> alpha,
                     radius |-> float(params, "radius", f32(1, 0)),
                     zmin |-> float(params, "zmin", f32(-1, 0)),
                     zmax |-> float(params, "zmax", f32(1, 0)),
                     phimax |-> float(params, "phimax", f32(360, 0)) ])
          [] ty = "disk" ->
                Ok([ variant |-> "Disk",
                     alpha |-> alpha,
                     height |-> float(params, "height", f32(0, 0)),
                     radius |-> float(params, "radius", f32(1, 0)),
                     innerradius |-> float(params, "innerradius", f32(0, 0)),
                     phimax |-> float(params, "phimax", f32(360, 0)) ])
          [] ty = "sphere" ->
                LET radius == float(params, "radius", f32(1, 0))
                    z == Sphere_zrange(params, radius)
                IN  Ok([ variant |-> "Sphere",
                         alpha |-> alpha,
                         radius |-> radius,
                         zmin |-> z.zmin,
                         zmax |-> z.zmax,
                         phimax |-> float(params, "phimax", f32(360, 0)) ])
          [] ty = "trianglemesh" ->
                LET indices == unwrap_or(integers(params, "indices"), <<>>)
                IN  IF ~debug_assert_indices(indices)
                    THEN Panic("assertion failed")
                    ELSE Ok([ variant |-> "TriangleMesh",
                              alpha |-> alpha,
                              indices |-> indices,
                              positions |-> unwrap_or(floats(params, "P"), <<>>),
                              normals |-> unwrap_or(floats(params, "N"), <<>>),
                              tangents |-> unwrap_or(floats(params, "S"), <<>>),
                              uvs |-> unwrap_or(floats(params, "uv"), <<>>) ])
          [] OTHER -> unimplemented

(***************************************************************************)
(* Directives: the calls a scene can make.                                 *)
(***************************************************************************)
Families ==
    { "CoordinateSystem", "Option", "Film", "Camera", "Integrator",
      "Accelerator", "Sampler", "Light", "Texture", "Material", "Shape",
      "Medium" }

\* The type tags a family declares.
DeclaredTags(family) ==
    CASE family = "CoordinateSystem" -> {"cameraworld", "camera", "world"}
      [] family = "Film" -> {"rgb", "gbuffer", "spectral"}
      [] family = "Camera" ->
            {"orthographic", "perspective", "realistic", "spherical"}
      [] family = "Integrator" ->
            { "ambientocclusion", "bdpt", "lightpath", "mlt", "path",
              "randomwalk", "simplepath", "simplevolpath", "sppm", "volpath" }
      [] family = "Accelerator" -> {"bvh", "kdtree"}
      [] family = "Sampler" ->
            { "halton", "independent", "paddedsobol", "sobol", "stratified",
              "zsobol" }
      [] family = "Light" ->
            {"distant", "goniometric", "infinite", "point", "projection", "spot"}
      [] family = "Texture" -> {"float", "spectrum"}
      [] family = "Shape" -> {"cylinder", "disk", "sphere", "trianglemesh"}
      [] OTHER -> {""}

\* Tags outside every declared set: empty, unknown, wrong case, padded.
UndeclaredTags(family) ==
    CASE family = "CoordinateSystem" ->
            {"", "foo", "Camera", "CAMERAWORLD", " camera", "world "}
      [] family = "Film" -> {"", "foo", "RGB"}
      [] family = "Camera" -> {"", "foo", "Perspective"}
      [] family = "Integrator" -> {"", "foo"}
      [] family = "Accelerator" -> {"", "foo", "BVH"}
      [] family = "Sampler" -> {"", "foo", "z-sobol"}
      [] family = "Light" -> {"", "foo", "area"}
      [] family = "Texture" -> {"", "foo", "rgb"}
      [] family = "Shape" -> {"", "foo", "Sphere"}
      [] OTHER -> {}

Tags(family) == DeclaredTags(family) \cup UndeclaredTags(family)

\* The parameter names a scene gives to a directive of the family.
ParamNames(family) ==
    CASE family = "Option" ->
            { "disablepixeljitter", "disabletexturefiltering",
              "disablewavelengthjitter", "displacementedgescale",
              "msereferenceimage", "msereferenceout", "rendercoordsys" }
      [] family = "Film" ->
            { "xresolution", "yresolution", "cropwindow", "diagonal",
              "filename", "savefp16", "iso", "whitebalance", "sensor",
              "maxcomponentvalue", "coordinatesystem", "nbuckets",
              "lambdamin", "lambdamax" }
      [] family = "Camera" ->
            { "shutteropen", "shutterclose", "fov", "lensfile",
              "aperturediameter", "focusdistance", "aperture", "mapping" }
      [] family = "Integrator" -> {"maxdepth"}
      [] family = "Accelerator" ->
            { "maxnodeprims", "splitmethod", "intersectcost", "traversalcost",
              "emptybonus", "maxprims", "maxdepth" }
      [] family = "Sampler" -> {"pixelsamples", "seed"}
      [] family = "Light" -> {"filename", "L", "scale"}
      [] family = "Texture" -> {"filename", "scale"}
      [] family = "Material" -> {"reflectance", "roughness"}
      [] family = "Shape" ->
            { "alpha", "radius", "zmin", "zmax", "phimax", "height",
              "innerradius", "indices", "P", "N", "S", "uv" }
      [] family = "Medium" -> {"type", "scale"}
      [] OTHER -> {}

\* <<0.1, 0.2, ...>> of length n.
FloatRamp(n) == [i \in 1..n |-> f32(i, -1)]

\* <<n-1, ..., 1, 0>> of length n.
FloatCountdown(n) == [i \in 1..n |-> f32(n - i, 0)]

\* <<0, 1, ..., n-1>> of length n.
IndexRamp(n) == [i \in 1..n |-> i - 1]

\* The values a scene gives to the parameter of that name.
ValuesOf(name) ==
    CASE name \in {"disablepixeljitter", "disabletexturefiltering",
                   "disablewavelengthjitter", "savefp16"} -> BOOLEAN
      [] name = "displacementedgescale" -> {f32(2, 0)}
      [] name = "msereferenceimage" -> {"ref.exr"}
      [] name = "msereferenceout" -> {"mse.txt"}
      [] name = "rendercoordsys" -> {"camera", "world", "foo"}
      [] name = "xresolution" -> {640}
      [] name = "yresolution" -> {480}
      [] name \in {"cropwindow", "L"} ->
            {FloatRamp(n) : n \in 0..MaxArrayLen}
                \cup {FloatCountdown(n) : n \in 1..MaxArrayLen}
      [] name = "diagonal" -> {f32(70, 0)}
      [] name = "filename" -> {"out.exr"}
      [] name = "iso" -> {f32(200, 0)}
      [] name = "whitebalance" -> {f32(6500, 0)}
      [] name = "sensor" -> {"canon_eos_5d_mkiv"}
      [] name = "maxcomponentvalue" -> {f32(10, 0)}
      [] name = "coordinatesystem" -> {"world"}
      [] name = "nbuckets" -> {32}
      [] name = "lambdamin" -> {f32(400, 0)}
      [] name = "lambdamax" -> {f32(700, 0)}
      [] name = "shutteropen" -> {f32(25, -2)}
      [] name = "shutterclose" -> {f32(75, -2)}
      [] name = "fov" -> {f32(60, 0)}
      [] name = "lensfile" -> {"wide.22mm.dat"}
      [] name = "aperturediameter" -> {f32(4, 0)}
      [] name = "focusdistance" -> {f32(25, -1)}
      [] name = "aperture" -> {"square"}
      [] name = "mapping" -> {"equirectangular"}
      [] name = "maxdepth" -> {8}
      [] name = "maxnodeprims" -> {8}
      [] name = "splitmethod" ->
            {"sah", "middle", "equal", "hlbvh", "", "foo", "SAH"}
      [] name = "intersectcost" -> {10}
      [] name = "traversalcost" -> {2}
      [] name = "emptybonus" -> {f32(25, -2)}
      [] name = "maxprims" -> {4}
      [] name \in {"pixelsamples", "seed"} -> {16}
      [] name \in {"scale", "roughness"} -> {f32(2, 0)}
      [] name = "reflectance" -> {"checks"}
      [] name = "type" -> {"homogeneous"}
      [] name = "alpha" -> {f32(5, -1)}
      [] name = "radius" -> {f32(2, 0), f32(5, -1)}
      [] name = "zmin" -> {f32(-5, -1)}
      [] name = "zmax" -> {f32(15, -1)}
      [] name = "phimax" -> {f32(180, 0)}
      [] name = "height" -> {f32(1, 0)}
      [] name = "innerradius" -> {f32(25, -2)}
      [] name = "indices" -> {IndexRamp(n) : n \in 0..MaxArrayLen}
      [] name \in {"P", "N", "S", "uv"} -> {FloatRamp(n) : n \in 0..MaxArrayLen}
      [] OTHER -> {}

\* The parameter lists over the names with at most k parameters.
RECURSIVE ParamLists(_, _)
ParamLists(names, k) ==
    IF k = 0 THEN {EmptyParams}
    ELSE LET smaller == ParamLists(names, k - 1)
         IN  smaller \cup
             UNION { { pn[1] @@ (pn[2] :> v) : v \in ValuesOf(pn[2]) } :
                     pn \in {q \in smaller \X names : q[2] \notin DOMAIN q[1]} }

\* Names of textures, materials; texture classes; texture-name maps.
EntityNames(family) ==
    CASE family = "Texture" -> {"checks", "noise"}
      [] family = "Material" -> {"diffuse", "coateddiffuse"}
      [] OTHER -> {""}

TextureClasses(family) ==
    IF family = "Texture" THEN {"checkerboard", "imagemap"} ELSE {""}

TextureMaps(family) ==
    IF family = "Material" THEN {<<>>, "checks" :> 0} ELSE {<<>>}

\* Param: the single parameter handed to Options::apply.
ParamListsOf(family) ==
    IF family = "Option"
    THEN ParamLists(ParamNames(family), 1) \ {EmptyParams}
    ELSE ParamLists(ParamNames(family), MaxParams)

DirectivesOf(family) ==
    { [ family |-> family, ty |-> ty, name |-> name, class |-> class,
        params |-> params, texture_map |-> texture_map ] :
        ty \in Tags(family), name \in EntityNames(family),
        class \in TextureClasses(family), params \in ParamListsOf(family),
        texture_map \in TextureMaps(family) }

Directives == UNION {DirectivesOf(family) : family \in Families}

\* A directive, with the fields its family does not use left empty.
Directive(family, ty, name, class, params, texture_map) ==
    [ family |-> family, ty |-> ty, name |-> name, class |-> class,
      params |-> params, texture_map |-> texture_map ]

\* The directives of the scenes with several directives.
SceneDirectives ==
    { Directive("Option", "", "", "", "disablepixeljitter" :> TRUE, <<>>),
      Directive("Option", "", "", "", "displacementedgescale" :> f32(2, 0), <<>>),
      Directive("Option", "", "", "", "msereferenceimage" :> "ref.exr", <<>>),
      Directive("Option", "", "", "", "rendercoordsys" :> "world", <<>>),
      Directive("CoordinateSystem", "camera", "", "", EmptyParams, <<>>),
      Directive("Film", "rgb", "", "", "xresolution" :> 640, <<>>),
      Directive("Camera", "perspective", "", "", "fov" :> f32(60, 0), <<>>),
      Directive("Integrator", "volpath", "", "", EmptyParams, <<>>),
      Directive("Integrator", "path", "", "", EmptyParams, <<>>),
      Directive("Accelerator", "bvh", "", "", "splitmethod" :> "equal", <<>>),
      Directive("Sampler", "halton", "", "", "pixelsamples" :> 16, <<>>),
      Directive("Light", "infinite", "", "", "L" :> FloatRamp(3), <<>>),
      Directive("Texture", "float", "checks", "checkerboard", EmptyParams, <<>>),
      Directive("Material", "", "diffuse", "", "reflectance" :> "checks",
                "checks" :> 0),
      Directive("Shape", "sphere", "", "", "radius" :> f32(2, 0), <<>>),
      Directive("Medium", "", "", "", EmptyParams, <<>>) }

(***************************************************************************)
(* The state machine.                                                      *)
(***************************************************************************)
\* A panic has ended the run.
Panicked == \E i \in DOMAIN log : log[i].result.kind = "Panic"

\* The directive of a slot is handed to its constructor and the outcome kept.
Return(slot, result) ==
    /\ pending' = pending \ {slot}
    /\ log' = Append(log, [slot |-> slot, result |-> result])
    /\ UNCHANGED <<scene, debug_assertions>>

Ready(slot, family) ==
    /\ ~Panicked
    /\ slot \in pending
    /\ scene[slot].family = family

CoordinateSystemFromStr ==
    \E slot \in pending :
        /\ Ready(slot, "CoordinateSystem")
        /\ Return(slot, CoordinateSystem_from_str(scene[slot].ty))
        /\ UNCHANGED opts

OptionsApply ==
    \E slot \in pending :
        /\ Ready(slot, "Option")
        /\ LET call == Options_apply(opts, scene[slot].params)
           IN  /\ opts' = call.self
               /\ Return(slot, call.ret)

FilmNew ==
    \E slot \in pending :
        /\ Ready(slot, "Film")
        /\ Return(slot, Film_new(scene[slot].ty, scene[slot].params))
        /\ UNCHANGED opts

CameraNew ==
    \E slot \in pending :
        /\ Ready(slot, "Camera")
        /\ Return(slot, Camera_new(scene[slot].ty, scene[slot].params))
        /\ UNCHANGED opts

IntegratorNew ==
    \E slot \in pending :
        /\ Ready(slot, "Integrator")
        /\ Return(slot, Integrator_new(scene[slot].ty, scene[slot].params))
        /\ UNCHANGED opts

AcceleratorNew ==
    \E slot \in pending :
        /\ Ready(slot, "Accelerator")
        /\ Return(slot, Accelerator_new(scene[slot].ty, scene[slot].params))
        /\ UNCHANGED opts

SamplerNew ==
    \E slot \in pending :
        /\ Ready(slot, "Sampler")
        /\ Return(slot, Sampler_new(scene[slot].ty, scene[slot].params))
        /\ UNCHANGED opts

LightNew ==
    \E slot \in pending :
        /\ Ready(slot, "Light")
        /\ Return(slot, Light_new(scene[slot].ty, scene[slot].params))
        /\ UNCHANGED opts

TextureNew ==
    \E slot \in pending :
        /\ Ready(slot, "Texture")
        /\ Return(slot, Texture_new(scene[slot].name, scene[slot].ty,
                                    scene[slot].class, scene[slot].params))
        /\ UNCHANGED opts

MaterialNew ==
    \E slot \in pending :
        /\ Ready(slot, "Material")
        /\ Return(slot, Material_new(scene[slot].name, scene[slot].params,
                                     scene[slot].texture_map))
        /\ UNCHANGED opts

ShapeNew ==
    \E slot \in pending :
        /\ Ready(slot, "Shape")
        /\ Return(slot, Shape_new(scene[slot].ty, scene[slot].params))
        /\ UNCHANGED opts

MediumNew ==
    \E slot \in pending :
        /\ Ready(slot, "Medium")
        /\ Return(slot, Medium_new(scene[slot].params))
        /\ UNCHANGED opts

Next ==
    \/ CoordinateSystemFromStr
    \/ OptionsApply
    \/ FilmNew
    \/ CameraNew
    \/ IntegratorNew
    \/ AcceleratorNew
    \/ SamplerNew
    \/ LightNew
    \/ TextureNew
    \/ MaterialNew
    \/ ShapeNew
    \/ MediumNew

\* Nothing has been processed; the Options value is the default one.
Start ==
    /\ pending = DOMAIN scene
    /\ log = <<>>
    /\ opts = Options_default
    /\ debug_assertions \in BOOLEAN

\* One directive, drawn from every family, tag and parameter list.
Init ==
    /\ scene \in {<<d>> : d \in Directives}
    /\ Start

Spec == Init /\ [][Next]_vars

\* A scene of MaxScene directives, processed in any order.
InitScene ==
    /\ scene \in [1..MaxScene -> SceneDirectives]
    /\ Start

SpecScene == InitScene /\ [][Next]_vars

\* The families whose constructor takes a parameter list it does not read.
PairFamilies == {"Sampler", "Texture", "Material", "Medium"}

\* Two directives of one such family, alike in tag, name and class.
InitPair ==
    /\ scene \in UNION { { <<d, e>> : d, e \in DirectivesOf(family) } :
                         family \in PairFamilies }
    /\ scene[1].ty = scene[2].ty
    /\ scene[1].name = scene[2].name
    /\ scene[1].class = scene[2].class
    /\ Start

NextPair ==
    \/ SamplerNew
    \/ TextureNew
    \/ MaterialNew
    \/ MediumNew

SpecPair == InitPair /\ [][NextPair]_vars

(***************************************************************************)
(* Properties.  Called(i) is the directive of the i-th call, Returned(i)   *)
(* its outcome.                                                            *)
(***************************************************************************)
Called(i) == scene[log[i].slot]
Returned(i) == log[i].result

EntityFamilies ==
    { "Film", "Camera", "Integrator", "Accelerator", "Sampler", "Light",
      "Texture", "Shape" }

\* C1: in each of the eight entity families, a constructor called with a
\* type tag outside the family's declared set returns an error value; none
\* panics.
C1_UnknownTagReturnsError ==
    \A i \in DOMAIN log :
        (/\ Called(i).family \in EntityFamilies
         /\ Called(i).ty \notin DeclaredTags(Called(i).family))
            => Returned(i).kind = "Err"

\* C2: Film::new with a declared tag: a "cropwindow" of a length other than
\* 4 gives an error and no Film; one of exactly 4 floats gives a Film whose
\* crop_window is those floats in order; without "cropwindow" the crop
\* window is [0, 1, 0, 1].
C2_CropWindowArity ==
    \A i \in DOMAIN log :
        (/\ Called(i).family = "Film"
         /\ Called(i).ty \in {"rgb", "gbuffer", "spectral"})
            => LET params == Called(i).params
                   result == Returned(i)
               IN  IF "cropwindow" \notin DOMAIN params
                   THEN /\ result.kind = "Ok"
                        /\ result.value[1].crop_window =
                              <<f32(0, 0), f32(1, 0), f32(0, 0), f32(1, 0)>>
                   ELSE IF Len(params["cropwindow"]) = 4
                   THEN /\ result.kind = "Ok"
                        /\ result.value[1].crop_window = params["cropwindow"]
                   ELSE /\ result.kind = "Err"
                        /\ result.value = None

\* A crop window of three floats was rejected.
C2_Witness ==
    \E i \in DOMAIN log :
        /\ Called(i).family = "Film"
        /\ Called(i).ty = "spectral"
        /\ "cropwindow" \in DOMAIN Called(i).params
        /\ Len(Called(i).params["cropwindow"]) = 3
        /\ Returned(i) = Err("ParseSlice")

\* The field each parameter of a family sets.
FilmFields ==
    [ xresolution |-> "xresolution", yresolution |-> "yresolution",
      cropwindow |-> "crop_window", diagonal |-> "diagonal",
      filename |-> "filename", savefp16 |-> "save_fp16", iso |-> "iso",
      whitebalance |-> "white_balance", sensor |-> "sensor",
      maxcomponentvalue |-> "max_component_value" ]

GBufferFields == [coordinatesystem |-> "coordinate_system"]

SpectralFields ==
    [nbuckets |-> "nbuckets", lambdamin |-> "lambda_min",
     lambdamax |-> "lambda_max"]

VolPathFields == [maxdepth |-> "max_depth"]

KdTreeFields ==
    [ intersectcost |-> "intersect_cost", traversalcost |-> "traversal_cost",
      emptybonus |-> "empty_bonus", maxprims |-> "max_prims",
      maxdepth |-> "max_depth" ]

\* The documented defaults.
GBufferDefault == [variant |-> "GBuffer", coordinate_system |-> "camera"]

SpectralDefault ==
    [ variant |-> "Spectral", nbuckets |-> 16, lambda_min |-> f32(360, 0),
      lambda_max |-> f32(830, 0) ]

VolPathDefault == [variant |-> "VolPath", max_depth |-> 5]

KdTreeDefault ==
    [ variant |-> "KdTree", intersect_cost |-> 5, traversal_cost |-> 1,
      empty_bonus |-> f32(5, -1), max_prims |-> 1, max_depth |-> -1 ]

CylinderFields ==
    [ alpha |-> "alpha", radius |-> "radius", zmin |-> "zmin",
      zmax |-> "zmax", phimax |-> "phimax" ]

DiskFields ==
    [ alpha |-> "alpha", height |-> "height", radius |-> "radius",
      innerradius |-> "innerradius", phimax |-> "phimax" ]

CylinderDefault ==
    [ variant |-> "Cylinder", alpha |-> f32(1, 0), radius |-> f32(1, 0),
      zmin |-> f32(-1, 0), zmax |-> f32(1, 0), phimax |-> f32(360, 0) ]

DiskDefault ==
    [ variant |-> "Disk", alpha |-> f32(1, 0), height |-> f32(0, 0),
      radius |-> f32(1, 0), innerradius |-> f32(0, 0),
      phimax |-> f32(360, 0) ]

\* Every field of the value is the parameter that sets it when that is
\* present, and the default otherwise.
OverridesOwnFieldOnly(value, default, params, fields) ==
    /\ DOMAIN value = DOMAIN default
    /\ \A name \in DOMAIN fields :
          value[fields[name]] =
              IF name \in DOMAIN params THEN params[name]
              ELSE default[fields[name]]
    /\ \A field \in DOMAIN default \ {fields[name] : name \in DOMAIN fields} :
          field # "ty" => value[field] = default[field]

\* C3: an empty parameter list gives the documented defaults -- Film "rgb"
\* equals Film::default(), gbuffer carries "camera", spectral 16 and
\* 360..830, volpath depth 5, kdtree 5, 1, 0.5, 1, -1 -- and a parameter
\* that is present overrides its own field only (checked on every field of
\* Film, volpath, kdtree, cylinder and disk).
C3_Defaults ==
    \A i \in DOMAIN log :
        LET d == Called(i)
            result == Returned(i)
            value == result.value[1]
        IN  /\ (d.family = "Film" /\ d.params = EmptyParams) =>
                  /\ d.ty = "rgb" => result = Ok(Film_default)
                  /\ d.ty = "gbuffer" =>
                        result = Ok([Film_default EXCEPT !.ty = GBufferDefault])
                  /\ d.ty = "spectral" =>
                        result = Ok([Film_default EXCEPT !.ty = SpectralDefault])
            /\ (d.family = "Film" /\ result.kind = "Ok") =>
                  /\ OverridesOwnFieldOnly(value, Film_default, d.params,
                                           FilmFields)
                  /\ d.ty = "rgb" => value.ty = [variant |-> "Rgb"]
                  /\ d.ty = "gbuffer" =>
                        OverridesOwnFieldOnly(value.ty, GBufferDefault,
                                              d.params, GBufferFields)
                  /\ d.ty = "spectral" =>
                        OverridesOwnFieldOnly(value.ty, SpectralDefault,
                                              d.params, SpectralFields)
            /\ (d.family = "Integrator" /\ d.ty = "volpath") =>
                  /\ result.kind = "Ok"
                  /\ d.params = EmptyParams => value = VolPathDefault
                  /\ OverridesOwnFieldOnly(value, VolPathDefault, d.params,
                                           VolPathFields)
            /\ (d.family = "Accelerator" /\ d.ty = "kdtree") =>
                  /\ result.kind = "Ok"
                  /\ d.params = EmptyParams => value = KdTreeDefault
                  /\ OverridesOwnFieldOnly(value, KdTreeDefault, d.params,
                                           KdTreeFields)
            /\ (d.family = "Shape" /\ d.ty = "cylinder") =>
                  /\ result.kind = "Ok"
                  /\ OverridesOwnFieldOnly(value, CylinderDefault, d.params,
                                           CylinderFields)
            /\ (d.family = "Shape" /\ d.ty = "disk") =>
                  /\ result.kind = "Ok"
                  /\ OverridesOwnFieldOnly(value, DiskDefault, d.params,
                                           DiskFields)

\* A spectral film was built from an empty parameter list.
C3_Witness ==
    \E i \in DOMAIN log :
        /\ Called(i).family = "Film"
        /\ Called(i).ty = "spectral"
        /\ Called(i).params = EmptyParams
        /\ Returned(i).kind = "Ok"
        /\ Returned(i).value[1].xresolution = 1280
        /\ Returned(i).value[1].ty.nbuckets = 16

\* C4: a sphere reads its radius first (default 1.0); zmin is the "zmin"
\* parameter or -radius, zmax is the "zmax" parameter or +radius, each
\* derived from the radius and not from the other (radius 2.0 alone gives
\* -2.0 and 2.0; radius 2.0 with zmin -0.5 gives -0.5 and 2.0).  A cylinder
\* defaults its z-range to -1.0 and 1.0 whatever its radius.
C4_SphereZRange ==
    \A i \in DOMAIN log :
        LET params == Called(i).params
            result == Returned(i)
            value == result.value[1]
        IN  /\ (Called(i).family = "Shape" /\ Called(i).ty = "sphere") =>
                  /\ result.kind = "Ok"
                  /\ value.radius =
                        IF "radius" \in DOMAIN params THEN params["radius"]
                        ELSE f32(1, 0)
                  /\ value.zmin =
                        IF "zmin" \in DOMAIN params THEN params["zmin"]
                        ELSE Neg(value.radius)
                  /\ value.zmax =
                        IF "zmax" \in DOMAIN params THEN params["zmax"]
                        ELSE value.radius
                  /\ params = ("radius" :> f32(2, 0)) =>
                        value.zmin = f32(-2, 0) /\ value.zmax = f32(2, 0)
                  /\ params = ("radius" :> f32(2, 0)) @@ ("zmin" :> f32(-5, -1)) =>
                        value.zmin = f32(-5, -1) /\ value.zmax = f32(2, 0)
            /\ (Called(i).family = "Shape" /\ Called(i).ty = "cylinder") =>
                  /\ result.kind = "Ok"
                  /\ value.zmin =
                        IF "zmin" \in DOMAIN params THEN params["zmin"]
                        ELSE f32(-1, 0)
                  /\ value.zmax =
                        IF "zmax" \in DOMAIN params THEN params["zmax"]
                        ELSE f32(1, 0)

\* A sphere of radius 2.0 with zmin -0.5 got zmax 2.0.
C4_Witness ==
    \E i \in DOMAIN log :
        /\ Called(i).family = "Shape"
        /\ Called(i).ty = "sphere"
        /\ Called(i).params = ("radius" :> f32(2, 0)) @@ ("zmin" :> f32(-5, -1))
        /\ Returned(i).kind = "Ok"
        /\ Returned(i).value[1].zmin = f32(-5, -1)
        /\ Returned(i).value[1].zmax = f32(2, 0)

\* C5: CoordinateSystem::from_str maps "cameraworld", "camera" and "world"
\* to CameraWorld, Camera and World, three distinct variants, and returns
\* UnknownCoordinateSystem for every other string, also one that differs
\* from a declared token in case or surrounding blanks only.
C5_CoordinateSystemExact ==
    \A i \in DOMAIN log :
        Called(i).family = "CoordinateSystem" =>
            LET token == Called(i).ty
            IN  Returned(i) =
                    IF token = "cameraworld" THEN Ok("CameraWorld")
                    ELSE IF token = "camera" THEN Ok("Camera")
                    ELSE IF token = "world" THEN Ok("World")
                    ELSE Err("UnknownCoordinateSystem")

\* The token " camera", padded with a blank, was rejected.
C5_Witness ==
    \E i \in DOMAIN log :
        /\ Called(i).family = "CoordinateSystem"
        /\ Called(i).ty = " camera"
        /\ Returned(i) = Err("UnknownCoordinateSystem")

\* C6: an infinite light has no l when "L" is absent, has l equal to the
\* three floats of "L" in order when "L" has exactly three, and is not
\* built (an error is returned) when "L" has another length; its filename
\* is present exactly when the "filename" parameter is, whatever "L" is.
C6_InfiniteLight ==
    \A i \in DOMAIN log :
        (Called(i).family = "Light" /\ Called(i).ty = "infinite") =>
            LET params == Called(i).params
                result == Returned(i)
                value == result.value[1]
            IN  IF "L" \in DOMAIN params /\ Len(params["L"]) # 3
                THEN result.kind = "Err" /\ result.value = None
                ELSE /\ result.kind = "Ok"
                     /\ value.variant = "Infinite"
                     /\ value.l = IF "L" \in DOMAIN params
                                  THEN Some(params["L"]) ELSE None
                     /\ value.filename =
                            IF "filename" \in DOMAIN params
                            THEN Some(params["filename"]) ELSE None

\* A spectrum of two floats was rejected.
C6_Witness ==
    \E i \in DOMAIN log :
        /\ Called(i).family = "Light"
        /\ Called(i).ty = "infinite"
        /\ "L" \in DOMAIN Called(i).params
        /\ Len(Called(i).params["L"]) = 2
        /\ Returned(i) = Err("ParseSlice")

\* C7: a bvh accelerator gets split_method Sah, Middle, Equal, Hlbvh from
\* the "splitmethod" strings "sah", "middle", "equal", "hlbvh", Sah when
\* the parameter is absent, and the call returns an error for any other
\* string; max_node_prims is "maxnodeprims" or 4, whatever the split method.
C7_BvhSplitMethod ==
    \A i \in DOMAIN log :
        (Called(i).family = "Accelerator" /\ Called(i).ty = "bvh") =>
            LET params == Called(i).params
                result == Returned(i)
                value == result.value[1]
                method == IF "splitmethod" \in DOMAIN params
                          THEN params["splitmethod"] ELSE "sah"
            IN  IF method \in {"sah", "middle", "equal", "hlbvh"}
                THEN /\ result.kind = "Ok"
                     /\ value.variant = "Bvh"
                     /\ value.split_method =
                            IF method = "sah" THEN "Sah"
                            ELSE IF method = "middle" THEN "Middle"
                            ELSE IF method = "equal" THEN "Equal"
                            ELSE "Hlbvh"
                     /\ value.max_node_prims =
                            IF "maxnodeprims" \in DOMAIN params
                            THEN params["maxnodeprims"] ELSE 4
                ELSE result.kind = "Err" /\ result.value = None

\* A bvh with splitmethod "equal" alone got 4 primitives a node and Equal.
C7_Witness ==
    \E i \in DOMAIN log :
        /\ Called(i).family = "Accelerator"
        /\ Called(i).ty = "bvh"
        /\ Called(i).params = ("splitmethod" :> "equal")
        /\ Returned(i) =
              Ok([variant |-> "Bvh", max_node_prims |-> 4, split_method |-> "Equal"])

CameraVariant(ty) ==
    CASE ty = "orthographic" -> "Orthographic"
      [] ty = "perspective" -> "Perspective"
      [] ty = "realistic" -> "Realistic"
      [] ty = "spherical" -> "Spherical"

\* C8: each of the four camera tags gives its own variant, with
\* shutter_open the "shutteropen" parameter or 0.0 and shutter_close the
\* "shutterclose" parameter or 1.0 in every variant; perspective has fov
\* the "fov" parameter or 90.0; an unknown tag gives InvalidCameraType
\* whatever the parameters are.
C8_Camera ==
    \A i \in DOMAIN log :
        Called(i).family = "Camera" =>
            LET ty == Called(i).ty
                params == Called(i).params
                result == Returned(i)
                value == result.value[1]
            IN  IF ty \in {"orthographic", "perspective", "realistic", "spherical"}
                THEN /\ result.kind = "Ok"
                     /\ value.variant = CameraVariant(ty)
                     /\ value.shutter_open =
                            IF "shutteropen" \in DOMAIN params
                            THEN params["shutteropen"] ELSE f32(0, 0)
                     /\ value.shutter_close =
                            IF "shutterclose" \in DOMAIN params
                            THEN params["shutterclose"] ELSE f32(1, 0)
                     /\ ty = "perspective" =>
                            value.fov = IF "fov" \in DOMAIN params
                                        THEN params["fov"] ELSE f32(90, 0)
                ELSE result = Err("InvalidCameraType")

\* A perspective camera with fov 60 alone got shutter 0.0 to 1.0 and fov 60.
C8_Witness ==
    \E i \in DOMAIN log :
        /\ Called(i).family = "Camera"
        /\ Called(i).ty = "perspective"
        /\ Called(i).params = ("fov" :> f32(60, 0))
        /\ Returned(i) =
              Ok([ variant |-> "Perspective", shutter_open |-> f32(0, 0),
                   shutter_close |-> f32(1, 0), fov |-> f32(60, 0) ])

C10_OptionsApplyNoOp ==
    /\ opts = [ disable_pixel_jitter |-> FALSE,
                disable_texture_filtering |-> FALSE,
                disable_wavelength_jitter |-> FALSE,
                displacement_edge_scale |-> f32(1, 0),
                mse_reference_image |-> None,
                mse_reference_out |-> None,
                render_coord_sys |-> "CameraWorld" ]
    /\ \A i \in DOMAIN log :
          Called(i).family = "Option" => Returned(i) = Ok(<<>>)

\* Two different options were applied one after the other.
C10_Witness ==
    \E i, j \in DOMAIN log :
        /\ i < j
        /\ Called(i).family = "Option"
        /\ Called(j).family = "Option"
        /\ Called(i) # Called(j)
        /\ Returned(j) = Ok(<<>>)

\* C11: for a tag outside the declared set, Camera, Accelerator, Sampler
\* and Texture return an error value, while Film, Integrator, Light and
\* Shape panic in unimplemented!(); of the integrator names only "volpath"
\* returns a value, the nine others panic like an unknown tag.
C11_UnknownTagByFamily ==
    \A i \in DOMAIN log :
        LET family == Called(i).family
            ty == Called(i).ty
            result == Returned(i)
        IN  /\ (/\ family \in {"Camera", "Accelerator", "Sampler", "Texture"}
                /\ ty \notin DeclaredTags(family))
                  => result.kind = "Err" /\ result.value = None
            /\ (/\ family \in {"Film", "Light", "Shape"}
                /\ ty \notin DeclaredTags(family))
                  => result = Panic("not implemented")
            /\ family = "Integrator" =>
                  IF ty = "volpath"
                  THEN /\ result.kind = "Ok"
                       /\ result.value[1].variant = "VolPath"
                  ELSE result = Panic("not implemented")

\* The declared integrator name "bdpt" ended in the panic.
C11_Witness ==
    \E i \in DOMAIN log :
        /\ Called(i).family = "Integrator"
        /\ Called(i).ty = "bdpt"
        /\ Returned(i) = Panic("not implemented")

\* The mesh built from the parameters: each array as given, or empty.
MeshOf(params) ==
    [ variant |-> "TriangleMesh",
      alpha |-> IF "alpha" \in DOMAIN params THEN params["alpha"] ELSE f32(1, 0),
      indices |-> IF "indices" \in DOMAIN params THEN params["indices"] ELSE <<>>,
      positions |-> IF "P" \in DOMAIN params THEN params["P"] ELSE <<>>,
      normals |-> IF "N" \in DOMAIN params THEN params["N"] ELSE <<>>,
      tangents |-> IF "S" \in DOMAIN params THEN params["S"] ELSE <<>>,
      uvs |-> IF "uv" \in DOMAIN params THEN params["uv"] ELSE <<>> ]

\* C12 as stated: a trianglemesh never returns an error value; its five
\* arrays are copied as given, or empty when absent, each on its own; and
\* an index count that is no multiple of 3 trips the assertion.
C12_IndexCountAlwaysAsserted ==
    \A i \in DOMAIN log :
        (Called(i).family = "Shape" /\ Called(i).ty = "trianglemesh") =>
            LET mesh == MeshOf(Called(i).params)
            IN  Returned(i) =
                    IF Len(mesh.indices) % 3 # 0
                    THEN Panic("assertion failed")
                    ELSE Ok(mesh)

\* C12, amended: a trianglemesh never returns an error value; its five
\* arrays are copied as given, or empty when absent, each on its own, with
\* no check of the positions against the indices; an index count that is
\* no multiple of 3 trips the assertion in a build with debug assertions,
\* and is accepted like any other in a build without them.
C12_TriangleMesh ==
    \A i \in DOMAIN log :
        (Called(i).family = "Shape" /\ Called(i).ty = "trianglemesh") =>
            LET mesh == MeshOf(Called(i).params)
            IN  /\ Returned(i).kind # "Err"
                /\ Returned(i) =
                      IF debug_assertions /\ Len(mesh.indices) % 3 # 0
                      THEN Panic("assertion failed")
                      ELSE Ok(mesh)

\* In a build with debug assertions, two indices tripped the assertion.
C12_Witness ==
    \E i \in DOMAIN log :
        /\ debug_assertions
        /\ Called(i).family = "Shape"
        /\ Called(i).ty = "trianglemesh"
        /\ "indices" \in DOMAIN Called(i).params
        /\ Len(Called(i).params["indices"]) = 2
        /\ Returned(i) = Panic("assertion failed")

SamplerVariant(ty) ==
    CASE ty = "halton" -> "Halton"
      [] ty = "independent" -> "Independent"
      [] ty = "paddedsobol" -> "PaddedSobol"
      [] ty = "sobol" -> "Sobol"
      [] ty = "stratified" -> "Stratified"
      [] ty = "zsobol" -> "ZSobol"

\* C13: the outcome of Sampler::new, Texture::new, Material::new and
\* Medium::new does not depend on the parameter list: two calls that differ
\* in it alone (for a material, in the texture map too) return the same
\* outcome.  A sampler is the variant of its tag, or an error; a texture
\* copies name and class and takes its type from the tag "float" or
\* "spectrum", or is an error; a material copies its name; a medium always
\* succeeds.
C13_ParamsIgnored ==
    /\ \A i, j \in DOMAIN log :
          (/\ Called(i).family \in PairFamilies
           /\ Called(i).family = Called(j).family
           /\ Called(i).ty = Called(j).ty
           /\ Called(i).name = Called(j).name
           /\ Called(i).class = Called(j).class)
              => Returned(i) = Returned(j)
    /\ \A i \in DOMAIN log :
          LET d == Called(i)
          IN  /\ d.family = "Sampler" =>
                    Returned(i) =
                        IF d.ty \in { "halton", "independent", "paddedsobol",
                                      "sobol", "stratified", "zsobol" }
                        THEN Ok([variant |-> SamplerVariant(d.ty)])
                        ELSE Err("InvalidObjectType")
              /\ d.family = "Texture" =>
                    Returned(i) =
                        IF d.ty = "float"
                        THEN Ok([name |-> d.name, ty |-> "Float", class |-> d.class])
                        ELSE IF d.ty = "spectrum"
                        THEN Ok([ name |-> d.name, ty |-> "Spectrum",
                                  class |-> d.class ])
                        ELSE Err("InvalidObjectType")
              /\ d.family = "Material" => Returned(i) = Ok([ty |-> d.name])
              /\ d.family = "Medium" => Returned(i).kind = "Ok"

\* Two materials of one name, with different parameter lists and texture
\* maps, were built alike.
C13_Witness ==
    \E i, j \in DOMAIN log :
        /\ i # j
        /\ Called(i).family = "Material"
        /\ Called(j).family = "Material"
        /\ Called(i).params # Called(j).params
        /\ Called(i).texture_map # Called(j).texture_map
        /\ Returned(i).kind = "Ok"
        /\ Returned(i) = Returned(j)

====
